---- MODULE Spec2Model ----
(***************************************************************************)
(* HF-Doctor: the booking workflow of the two chat applications            *)
(*   src/app-webhook.py   (duplicate check, insert, webhook confirmation)  *)
(*   src/app-calendar.py  (insert only)                                    *)
(* One behaviour runs one of the two applications (variable variant).      *)
(*                                                                         *)
(* Text is a sequence of letters.  Cyrillic letters are written by a fixed *)
(* one-to-one transliteration, one token per letter ("zh", "ch", "soft",   *)
(* "ya", ...); an upper-case letter is the upper-case token.               *)
(* Time is counted in half minutes, so that strftime's cut to the minute   *)
(* is visible.                                                             *)
(***************************************************************************)
EXTENDS Integers, Sequences, FiniteSets, TLC

(***************************** bounds **************************************)
\* turns (calls of generate_response) started in one behaviour
MaxTurns == 4
\* clock advances in one behaviour
MaxTicks == 1
\* the time a call takes: half a minute
ShortWait == 1
\* the time between two turns: 2 h 45 min, in half minutes
LongWait == 330
\* turns started while another turn is running, in one behaviour
MaxOverlaps == 1
\* tokens of one generated LLM answer
MaxTokens == 1

(************************ program constants ********************************)
\* app-webhook.py:22
MAX_RETRIES == 3
\* timedelta(hours=3), in half minutes
HOURS_3 == 360
\* timedelta(minutes=30), in half minutes
MINUTES_30 == 60

Sessions == {"A", "B"}
\* the sessions are interchangeable: the first turn of a behaviour is A's
FirstSession == "A"
Variants == {"webhook", "calendar"}

(****************************** text ***************************************)
UpperLetters ==
    <<"A", "B", "V", "G", "D", "E", "ZH", "Z", "I", "J", "K", "L", "M", "N",
      "O", "P", "R", "S", "T", "U", "F", "H", "C", "CH", "SH", "SCH", "HARD",
      "Y", "SOFT", "EH", "YU", "YA">>
LowerLetters ==
    <<"a", "b", "v", "g", "d", "e", "zh", "z", "i", "j", "k", "l", "m", "n",
      "o", "p", "r", "s", "t", "u", "f", "h", "c", "ch", "sh", "sch", "hard",
      "y", "soft", "eh", "yu", "ya">>

\* str.lower() on one letter
LowerChar(c) ==
    IF \E i \in 1..Len(UpperLetters) : UpperLetters[i] = c
    THEN LowerLetters[CHOOSE i \in 1..Len(UpperLetters) : UpperLetters[i] = c]
    ELSE c

\* str.lower()
Lower(s) == [i \in 1..Len(s) |-> LowerChar(s[i])]

\* the Python test  p in s
Contains(p, s) ==
    \E i \in 0..(Len(s) - Len(p)) : SubSeq(s, i + 1, i + Len(p)) = p

\* index of the first occurrence of letter c in s, 0 when there is none
FirstIndex(s, c) ==
    IF \E i \in 1..Len(s) : s[i] = c
    THEN CHOOSE i \in 1..Len(s) : s[i] = c /\ \A j \in 1..(i - 1) : s[j] # c
    ELSE 0

\* str.split(c, 1): one or two parts
Split1(s, c) ==
    LET i == FirstIndex(s, c)
    IN  IF i = 0 THEN <<s>>
        ELSE <<SubSeq(s, 1, i - 1), SubSeq(s, i + 1, Len(s))>>

\* str.strip()
Strip(s) ==
    LET ink == {i \in 1..Len(s) : s[i] # " "}
    IN  IF ink = {} THEN <<>>
        ELSE SubSeq(s, CHOOSE i \in ink : \A j \in ink : i <= j,
                       CHOOSE i \in ink : \A j \in ink : i >= j)

\* "zapis'" (app-webhook.py:123, app-calendar.py:75)
TermZapis == <<"z", "a", "p", "i", "s", "soft">>
\* "simptom"
TermSimptom == <<"s", "i", "m", "p", "t", "o", "m">>

\* the trigger test of generate_response
IsTrigger(message) ==
    \/ Contains(TermZapis, Lower(message))
    \/ Contains(TermSimptom, Lower(message))

(**************************** messages *************************************)
\* "Zapisat'sya k vrachu": the first example of app-calendar.py:120
MsgZapisatsya ==
    <<"Z", "a", "p", "i", "s", "a", "t", "soft", "s", "ya", " ", "k", " ",
      "v", "r", "a", "ch", "u">>
\* "Nuzhna zapis' k vrachu": the first example of app-webhook.py:171
MsgNuzhnaZapis ==
    <<"N", "u", "zh", "n", "a", " ", "z", "a", "p", "i", "s", "soft", " ",
      "k", " ", "v", "r", "a", "ch", "u">>
\* "Ivan Petrov, bolit gorlo i temperatura"
MsgIvanPetrov ==
    <<"I", "v", "a", "n", " ", "P", "e", "t", "r", "o", "v", ",", " ", "b",
      "o", "l", "i", "t", " ", "g", "o", "r", "l", "o", " ", "i", " ", "t",
      "e", "m", "p", "e", "r", "a", "t", "u", "r", "a">>
\* "Ivan Petrov, Simptomy: kashel'"
MsgIvanSimptom ==
    <<"I", "v", "a", "n", " ", "P", "e", "t", "r", "o", "v", ",", " ", "S",
      "i", "m", "p", "t", "o", "m", "y", ":", " ", "k", "a", "sh", "e", "l",
      "soft">>

\* the messages a user sends
Messages == {MsgZapisatsya, MsgNuzhnaZapis, MsgIvanPetrov, MsgIvanSimptom}

\* the messages the applications' own example lists give as the opening of
\* a booking (app-calendar.py:120, app-webhook.py:171)
ExampleTriggers == {MsgZapisatsya, MsgNuzhnaZapis}

(**************************** replies **************************************)
\* a reply: a fixed text, or a text with the specialist and the date in it
Text(t) == [text |-> t, specialist |-> <<>>, date |-> -1, tokens |-> 0]
\* Python's None
PyNone == Text("<None>")

\* app-webhook.py:129
PROMPT_WEBHOOK ==
    Text("Pozhalujsta, ukazhite vashe polnoe imya i opishite simptomy (cherez zapyatuyu).")
\* app-calendar.py:81
PROMPT_CALENDAR ==
    Text("Pozhalujsta, ukazhite vashe polnoe imya i opishite simptomy.")
\* app-webhook.py:135
FORMAT_ERROR ==
    Text("Nevernyj format. Pozhalujsta, ukazhite imya i simptomy cherez zapyatuyu.")
\* app-webhook.py:89
DUPLICATE ==
    Text("U vas uzhe est' aktivnaya zapis'. Pozhalujsta, dozhdites' podtverzhdeniya.")
\* app-webhook.py:115
CONNECT_ERROR ==
    Text("Oshibka podklyucheniya k sisteme zapisi. Poprobujte pozzhe.")
\* app-webhook.py:139
APOLOGY == Text("Izvinite, proizoshla oshibka obrabotki zaprosa.")
\* app-calendar.py:71
CALENDAR_ERROR ==
    Text("Oshibka pri sozdanii zapisi. Pozhalujsta, poprobujte pozzhe.")
\* app-webhook.py:156
INTERNAL_ERROR_WEBHOOK ==
    Text("Proizoshla vnutrennyaya oshibka. Pozhalujsta, povtorite zapros.")
\* app-calendar.py:105
INTERNAL_ERROR_CALENDAR ==
    Text("Proizoshla oshibka. Pozhalujsta, poprobujte esche raz.")

\* strftime('%d.%m.%Y %H:%M'): the instant cut to the minute (in minutes)
FormatDate(t) == t \div 2

\* app-webhook.py:111
PendingReply(specialist, t) ==
    [text |-> "Predvaritel'naya zapis' k {specialist} na {date} sozdana. Ozhidajte podtverzhdeniya.",
     specialist |-> specialist, date |-> FormatDate(t), tokens |-> 0]
\* app-calendar.py:68
BookedReply(specialist, t) ==
    [text |-> "Zapis' k {specialist} na {date} oformlena.",
     specialist |-> specialist, date |-> FormatDate(t), tokens |-> 0]

(***************************** events **************************************)
\* "Priem: "
SummaryPrefix == <<"P", "r", "i", "e", "m", ":", " ">>
\* "Simptomy: "
DescriptionPrefix == <<"S", "i", "m", "p", "t", "o", "m", "y", ":", " ">>
\* ". Trebuet podtverzhdeniya."
DescriptionSuffix ==
    <<".", " ", "T", "r", "e", "b", "u", "e", "t", " ", "p", "o", "d", "t",
      "v", "e", "r", "zh", "d", "e", "n", "i", "ya", ".">>

\* f'Priem: {name}, {specialist}'
Summary(name, specialist) == SummaryPrefix \o name \o <<",", " ">> \o specialist

\* the event body schedule_appointment builds (without the id)
WebhookEvent(name, specialist, symptoms, t) ==
    [summary |-> Summary(name, specialist),
     description |-> DescriptionPrefix \o symptoms,
     start |-> t, end |-> t + MINUTES_30, requiresConfirmation |-> TRUE]
CalendarEvent(name, specialist, symptoms, t) ==
    [summary |-> Summary(name, specialist),
     description |-> DescriptionPrefix \o symptoms \o DescriptionSuffix,
     start |-> t, end |-> t + MINUTES_30, requiresConfirmation |-> FALSE]

\* no event
NoEvent ==
    [id |-> 0, summary |-> <<>>, description |-> <<>>, start |-> 0, end |-> 0,
     requiresConfirmation |-> FALSE]

\* the stored event: the body and the id the calendar service gives it
Stored(body, id) ==
    [id |-> id, summary |-> body.summary, description |-> body.description,
     start |-> body.start, end |-> body.end,
     requiresConfirmation |-> body.requiresConfirmation]

\* "terapevt", "lor", "gorlo"
Terapevt == <<"t", "e", "r", "a", "p", "e", "v", "t">>
Lor == <<"l", "o", "r">>
Gorlo == <<"g", "o", "r", "l", "o">>

\* symptom_classifier.define_specialist: a pure function from the symptoms
\* to a specialist label
define_specialist(symptoms) ==
    IF Contains(Gorlo, Lower(symptoms)) THEN Lor ELSE Terapevt

(****************************** state **************************************)
VARIABLES
    variant,      \* which application runs
    webhookUrl,   \* WEBHOOK_URL is configured
    hasStep,      \* hasattr(generate_response, "step")
    step,         \* generate_response.step
    now,          \* datetime.now()
    ticks,        \* clock advances so far
    calendar,     \* the events the calendar service holds
    nextId,       \* the id the service gives the next event
    turns,        \* turns started so far
    overlaps,     \* turns started while another turn was running, so far
    pc,           \* per session: where its turn is
    msg,          \* per session: the message of its turn
    loc,          \* per session: the locals of schedule_appointment
    ret,          \* per session: the value generate_response returned
    yielded,      \* per session: the values generate_response yielded
    obs,          \* per session: what the turn did (history)
    promptedBy    \* the session whose turn set step to 1 last (history)

vars ==
    <<variant, webhookUrl, hasStep, step, now, ticks, calendar, nextId, turns,
      overlaps, pc, msg, loc, ret, yielded, obs, promptedBy>>

\* the locals of a turn that has not set them
NoLocals ==
    [name |-> <<>>, symptoms |-> <<>>, specialist |-> <<>>,
     appointment_time |-> 0]

\* the history of a turn that has done nothing yet
NoObs(t, s0) ==
    [requestedAt |-> t, stepAtStart |-> s0, stepAtEnd |-> 0, branch |-> "none",
     promptedBy |-> "none", clockRead |-> 0,
     lists |-> 0, routes |-> 0, inserts |-> 0, posts |-> <<>>, llm |-> 0,
     timeMin |-> 0, timeMax |-> 0, listResult |-> "none",
     event |-> NoEvent, dispatch |-> "none",
     duplicate |-> "none", seen |-> 0, postedId |-> 0, stepChanges |-> 0,
     raised |-> {}, items |-> 0]

Init ==
    /\ variant \in Variants
    /\ webhookUrl \in (IF variant = "webhook" THEN BOOLEAN ELSE {FALSE})
    /\ hasStep = FALSE
    /\ step = 0
    /\ now = 0
    /\ ticks = 0
    /\ calendar = {}
    /\ nextId = 1
    /\ turns = 0
    /\ overlaps = 0
    /\ pc = [s \in Sessions |-> "idle"]
    /\ msg = [s \in Sessions |-> <<>>]
    /\ loc = [s \in Sessions |-> NoLocals]
    /\ ret = [s \in Sessions |-> PyNone]
    /\ yielded = [s \in Sessions |-> <<>>]
    /\ obs = [s \in Sessions |-> NoObs(0, 0)]
    /\ promptedBy = "none"

(***************************** helpers *************************************)
Set(f, s, v) == [f EXCEPT ![s] = v]

\* the outcomes of a call of the calendar service: it answers, it answers with
\* an HTTP error status (HttpError), the network fails (not an HttpError), or
\* get_calendar_service fails before any request (no GOOGLE_CREDS, bad JSON)
ServiceResults == {"ok", "HttpError", "NetworkError", "CredentialsError"}

\* the collaborator that raised when a call of the calendar service ended as r
Raised(call, r) ==
    IF r = "ok" THEN {} ELSE IF r = "CredentialsError" THEN {"credentials"} ELSE {call}

\* events().list(timeMin, timeMax, q): the events that end after timeMin, start
\* before timeMax and carry the text q
ListEvents(timeMin, timeMax, q) ==
    {e \in calendar :
        /\ e.end > timeMin
        /\ e.start < timeMax
        /\ (Contains(q, e.summary) \/ Contains(q, e.description))}

\* the prompt of the running application
Prompt == IF variant = "webhook" THEN PROMPT_WEBHOOK ELSE PROMPT_CALENDAR

\* the text generate_response yields when the LLM path raises
InternalError ==
    IF variant = "webhook" THEN INTERNAL_ERROR_WEBHOOK ELSE INTERNAL_ERROR_CALENDAR

\* the text generated so far, after k tokens
Generated(k) == [text |-> "<generated>", specialist |-> <<>>, date |-> -1, tokens |-> k]

\* an end of the details turn that sets step to 1 again
WebhookFinishRearm(s, response, o) ==
    /\ ret' = Set(ret, s, IF response = PyNone THEN APOLOGY ELSE response)
    /\ pc' = Set(pc, s, "done")
    /\ obs' = Set(obs, s, [o EXCEPT !.stepAtEnd = 1])
    /\ step' = 1
    /\ UNCHANGED <<hasStep, promptedBy>>

\* app-webhook.py:138-139: schedule_appointment has returned response; the
\* turn returns it, or the apology when it is None; step was reset at line 132
WebhookFinish(s, response, o) ==
    /\ ret' = Set(ret, s, IF response = PyNone THEN APOLOGY ELSE response)
    /\ pc' = Set(pc, s, "done")
    /\ obs' = Set(obs, s, [o EXCEPT !.stepAtEnd = step])
    /\ UNCHANGED <<hasStep, step, promptedBy>>

\* app-calendar.py:86-88: schedule_appointment has returned response; step is
\* reset and the turn returns it
CalendarFinish(s, response, o) ==
    /\ ret' = Set(ret, s, response)
    /\ pc' = Set(pc, s, "done")
    /\ obs' = Set(obs, s, [o EXCEPT !.stepAtEnd = 0,
                                     !.stepChanges = IF step # 0 THEN @ + 1 ELSE @])
    /\ step' = 0
    /\ promptedBy' = "none"
    /\ UNCHANGED hasStep

Finish(s, response, o) ==
    IF variant = "webhook" THEN WebhookFinish(s, response, o)
    ELSE CalendarFinish(s, response, o)

\* what schedule_appointment returns when an exception of class cls leaves its
\* try block: app-webhook.py:113-118, app-calendar.py:69-71
OnException(cls) ==
    IF variant = "webhook"
    THEN IF cls = "HttpError" THEN CONNECT_ERROR ELSE PyNone
    ELSE CALENDAR_ERROR

(***************************** actions *************************************)
\* no turn is running
Quiet == \A s \in Sessions : pc[s] \in {"idle", "done"}

\* what a turn that starts now takes of the budget MaxTurns: a turn that
\* overlaps a running one counts twice
TurnCost == IF Quiet THEN 1 ELSE 2

\* the per-session record f with the entries of the finished turns set to v:
\* a finished turn's reply has been shown, nothing of it is kept
Forget(f, v) == [t \in Sessions |-> IF pc[t] \in {"idle", "done"} THEN v ELSE f[t]]

\* generate_response(message, history) starts: the trigger test and the
\* creation of the step attribute
Receive(s, m) ==
    /\ pc[s] \in {"idle", "done"}
    /\ turns = 0 => s = FirstSession
    /\ turns + TurnCost <= MaxTurns
    /\ Quiet \/ overlaps < MaxOverlaps
    /\ turns' = turns + TurnCost
    /\ overlaps' = (IF Quiet THEN overlaps ELSE overlaps + 1)
    /\ msg' = [Forget(msg, <<>>) EXCEPT ![s] = m]
    /\ loc' = Forget(loc, NoLocals)
    /\ ret' = Forget(ret, PyNone)
    /\ yielded' = Forget(yielded, <<>>)
    /\ obs' = [Forget(obs, NoObs(0, 0)) EXCEPT ![s] = NoObs(now, step)]
    /\ IF IsTrigger(m)
       THEN /\ hasStep' = TRUE
            /\ step' = (IF hasStep THEN step ELSE 0)
            /\ pc' = [Forget(pc, "idle") EXCEPT ![s] = "test_idle"]
       ELSE /\ pc' = [Forget(pc, "idle") EXCEPT ![s] = "llm"]
            /\ UNCHANGED <<hasStep, step>>
    /\ UNCHANGED <<variant, webhookUrl, now, ticks, calendar, nextId, promptedBy>>

\* the test  if generate_response.step == 0
TestIdle(s) ==
    /\ pc[s] = "test_idle"
    /\ pc' = Set(pc, s, IF step = 0 THEN "set_awaiting" ELSE "test_awaiting")
    /\ UNCHANGED <<variant, webhookUrl, overlaps, hasStep, step, now, ticks,
                   calendar, nextId, turns, msg, loc, ret, yielded, obs,
                   promptedBy>>

\* generate_response.step = 1; return the prompt
SetAwaiting(s) ==
    /\ pc[s] = "set_awaiting"
    /\ step' = 1
    /\ promptedBy' = s
    /\ ret' = Set(ret, s, Prompt)
    /\ obs' = Set(obs, s, [obs[s] EXCEPT !.branch = "prompt", !.stepAtEnd = 1,
                       !.stepChanges = IF step # 1 THEN @ + 1 ELSE @])
    /\ pc' = Set(pc, s, "done")
    /\ UNCHANGED <<variant, webhookUrl, overlaps, hasStep, now, ticks, calendar,
                   nextId, turns, msg, loc, yielded>>

\* a parse that takes a message without a comma as a name without symptoms
WebhookParseAny(message) ==
    LET parts == Split1(message, ",")
    IN  [ok |-> TRUE, name |-> Strip(parts[1]),
         symptoms |-> Strip(IF Len(parts) = 2 THEN parts[2] ELSE <<>>)]

\* the parse of the details message in app-webhook.py:133-137
WebhookParse(message) ==
    LET parts == Split1(message, ",")
    IN  IF Len(parts) < 2 THEN [ok |-> FALSE, name |-> <<>>, symptoms |-> <<>>]
        ELSE [ok |-> TRUE, name |-> Strip(parts[1]), symptoms |-> Strip(parts[2])]

\* the parse of the details message in app-calendar.py:84-86
CalendarParse(message) ==
    LET parts == Split1(message, " ")
    IN  [ok |-> TRUE, name |-> Strip(parts[1]),
         symptoms |-> Strip(IF Len(parts) = 2 THEN parts[2] ELSE <<>>)]

\* the test  if generate_response.step == 1; when it fails the turn falls
\* through to the LLM path
TestAwaiting(s) ==
    /\ pc[s] = "test_awaiting"
    /\ pc' = Set(pc, s, IF step = 1 THEN "details" ELSE "llm")
    /\ UNCHANGED <<variant, webhookUrl, overlaps, hasStep, step, now, ticks,
                   calendar, nextId, turns, msg, loc, ret, yielded, obs,
                   promptedBy>>

\* a schedule_appointment that starts with the duplicate check in both
\* applications
FirstCallCheck == "check"

\* the first call schedule_appointment makes: app-webhook.py:88,
\* app-calendar.py:46
FirstCall == IF variant = "webhook" THEN "check" ELSE "router"

\* the details turn up to the call of schedule_appointment:
\* app-webhook.py:132-137 (step is reset first), app-calendar.py:84-86
Details(s) ==
    /\ pc[s] = "details"
    /\ LET o == [obs[s] EXCEPT !.branch = "details", !.promptedBy = promptedBy,
                      !.stepChanges = IF variant = "webhook" /\ step # 0
                                      THEN @ + 1 ELSE @]
           p == IF variant = "webhook" THEN WebhookParse(msg[s])
                ELSE CalendarParse(msg[s])
       IN  /\ obs' = Set(obs, s, [o EXCEPT !.stepAtEnd = 0])
           /\ IF variant = "webhook"
              THEN step' = 0 /\ promptedBy' = "none"
              ELSE UNCHANGED <<step, promptedBy>>
           /\ IF p.ok
              THEN /\ loc' = Set(loc, s, [loc[s] EXCEPT !.name = p.name,
                                                       !.symptoms = p.symptoms])
                   /\ pc' = Set(pc, s, FirstCall)
                   /\ UNCHANGED ret
              ELSE /\ ret' = Set(ret, s, FORMAT_ERROR)
                   /\ pc' = Set(pc, s, "done")
                   /\ UNCHANGED loc
    /\ UNCHANGED <<variant, webhookUrl, overlaps, hasStep, now, ticks, calendar,
                   nextId, turns, msg, yielded>>

\* the window check_duplicate_event(name, time) asks the calendar about
DuplicateWindow(time) == [timeMin |-> time, timeMax |-> time + MINUTES_30]

\* q = f"Priem: {name}"
DuplicateQuery(name) == SummaryPrefix \o name

\* len(events_result.get('items', [])) with maxResults=1
Items(name, time) ==
    LET w == DuplicateWindow(time)
    IN  IF ListEvents(w.timeMin, w.timeMax, DuplicateQuery(name)) # {} THEN 1 ELSE 0

\* a check that never finds a duplicate
check_duplicate_never(r, name, time) ==
    IF r \in {"ok", "HttpError"} THEN "False" ELSE "raise"

\* check_duplicate_event(name, time) when the service call ends as r: "True",
\* "False", or "raise" when the exception is not an HttpError
check_duplicate_event(r, name, time) ==
    IF r = "ok"
    THEN IF Items(name, time) > 0 THEN "True" ELSE "False"
    ELSE IF r = "HttpError" THEN "False" ELSE "raise"

\* app-webhook.py:88-89: check_duplicate_event(name, datetime.now())
CheckDuplicate(s) ==
    /\ pc[s] = "check"
    /\ \E r \in ServiceResults :
         LET w == DuplicateWindow(now)
             asked == r # "CredentialsError"
             d == check_duplicate_event(r, loc[s].name, now)
             o == [obs[s] EXCEPT !.lists = IF asked THEN @ + 1 ELSE @,
                                 !.timeMin = IF asked THEN w.timeMin ELSE @,
                                 !.timeMax = IF asked THEN w.timeMax ELSE @,
                                 !.listResult = r,
                                 !.duplicate = d,
                                 !.items = IF r = "ok" THEN Items(loc[s].name, now) ELSE @,
                                 !.seen = nextId,
                                 !.raised = @ \cup Raised("list", r)]
         IN  IF d = "False"
             THEN /\ pc' = Set(pc, s, "router")
                  /\ obs' = Set(obs, s, o)
                  /\ UNCHANGED <<ret, hasStep, step, promptedBy>>
             ELSE WebhookFinish(s, IF d = "True" THEN DUPLICATE
                                   ELSE OnException(r), o)
    /\ UNCHANGED <<variant, webhookUrl, overlaps, now, ticks, calendar, nextId, turns,
                   msg, loc, yielded>>

\* specialist = define_specialist(symptoms)
\* appointment_time = datetime.now() + timedelta(hours=3)
AppointmentTime(t) == t + HOURS_3

DefineSpecialist(s) ==
    /\ pc[s] = "router"
    /\ \E ok \in BOOLEAN :
         LET o == [obs[s] EXCEPT !.routes = @ + 1,
                                 !.clockRead = IF ok THEN now ELSE @,
                                 !.raised = IF ok THEN @ ELSE @ \cup {"router"}]
         IN  IF ok
             THEN /\ loc' = Set(loc, s,
                         [loc[s] EXCEPT !.specialist = define_specialist(loc[s].symptoms),
                                        !.appointment_time = AppointmentTime(now)])
                  /\ pc' = Set(pc, s, "insert")
                  /\ obs' = Set(obs, s, o)
                  /\ UNCHANGED <<ret, hasStep, step, promptedBy>>
             ELSE /\ Finish(s, OnException("RouterError"), o)
                  /\ UNCHANGED loc
    /\ UNCHANGED <<variant, webhookUrl, overlaps, now, ticks, calendar, nextId, turns,
                   msg, yielded>>

\* the event body of the running application
EventBody(l) ==
    IF variant = "webhook"
    THEN WebhookEvent(l.name, l.specialist, l.symptoms, l.appointment_time)
    ELSE CalendarEvent(l.name, l.specialist, l.symptoms, l.appointment_time)

\* an insert that the service refuses (the calendar stays as it is) when it
\* holds an event of the same summary in an overlapping slot
InsertedIfFree(cal, e) ==
    IF \E x \in cal : x.summary = e.summary /\ x.start < e.end /\ e.start < x.end
    THEN cal ELSE cal \cup {e}

\* events().insert(body=event).execute(): the calendar with the event added,
\* whatever it holds already
Inserted(cal, e) == cal \cup {e}

\* service = get_calendar_service(); service.events().insert(body=event)
InsertEvent(s) ==
    /\ pc[s] = "insert"
    /\ \E r \in ServiceResults :
         LET e == Stored(EventBody(loc[s]), nextId)
             o == [obs[s] EXCEPT !.inserts = IF r # "CredentialsError" THEN @ + 1 ELSE @,
                                 !.event = IF r = "ok" THEN e ELSE @,
                                 !.raised = @ \cup Raised("insert", r)]
         IN  IF r = "ok"
             THEN /\ calendar' = Inserted(calendar, e)
                  /\ nextId' = nextId + 1
                  /\ IF variant = "webhook"
                     THEN /\ pc' = Set(pc, s, "dispatch")
                          /\ obs' = Set(obs, s, o)
                          /\ UNCHANGED <<ret, hasStep, step, promptedBy>>
                     ELSE CalendarFinish(s, BookedReply(loc[s].specialist,
                                                        loc[s].appointment_time), o)
             ELSE /\ Finish(s, OnException(r), o)
                  /\ UNCHANGED <<calendar, nextId>>
    /\ UNCHANGED <<variant, webhookUrl, overlaps, now, ticks, turns, msg, loc, yielded>>

\* the POST attempts of one call of send_webhook_confirmation under the retry
\* decorator: stop_after_attempt(MAX_RETRIES), any exception is retried; the
\* attempts before the last one have failed
PostRuns ==
    {[i \in 1..n |-> IF i < n THEN "fail" ELSE last] :
        n \in 1..MAX_RETRIES, last \in {"ok", "fail"}}

\* the attempts of a decorator that always makes MAX_RETRIES attempts,
\* whatever their results
RetryRunsAll == [1..MAX_RETRIES -> {"ok", "fail"}]

\* the attempts of a call that is not retried: one POST
RetryRunsOnce == {r \in PostRuns : Len(r) = 1}

\* a run of attempts the decorator can make: it stops at the first success
\* and gives up (RetryError) when attempt MAX_RETRIES has failed
RetryRuns ==
    {r \in PostRuns : r[Len(r)] = "ok" \/ Len(r) = MAX_RETRIES}

\* a send_webhook_confirmation that posts whether or not the URL is set
send_webhook_always(url) == RetryRuns

\* the POST attempts of one call of send_webhook_confirmation: none when
\* WEBHOOK_URL is not set (it returns at once), a run of the decorator otherwise
send_webhook_confirmation(url) == IF ~url THEN {<<>>} ELSE RetryRuns

\* send_webhook_confirmation(created_event['id']) and the return of
\* schedule_appointment after it
SendWebhook(s) ==
    /\ pc[s] = "dispatch"
    /\ LET reply == PendingReply(loc[s].specialist, loc[s].appointment_time)
           \* created_event['id']
           id == obs[s].event.id
       IN  \E r \in send_webhook_confirmation(webhookUrl) :
              IF r = <<>>
              THEN WebhookFinish(s, reply, [obs[s] EXCEPT !.dispatch = "skipped"])
              ELSE IF r[Len(r)] = "ok"
              THEN WebhookFinish(s, reply,
                      [obs[s] EXCEPT !.posts = r, !.postedId = id,
                                     !.dispatch = "delivered",
                                     !.raised = IF Len(r) > 1 THEN @ \cup {"webhook"}
                                                ELSE @])
              ELSE WebhookFinish(s, OnException("RetryError"),
                      [obs[s] EXCEPT !.posts = r, !.postedId = id,
                                     !.dispatch = "exhausted",
                                     !.raised = @ \cup {"webhook"}])
    /\ UNCHANGED <<variant, webhookUrl, overlaps, now, ticks, calendar, nextId,
                   turns, msg, loc, yielded>>

\* the LLM path: client.text_generation(...) and the loop over its stream;
\* n tokens arrive, then the stream ends or raises
Generate(s) ==
    /\ pc[s] = "llm"
    /\ \E n \in 0..MaxTokens, ok \in BOOLEAN :
         /\ yielded' = Set(yielded, s,
                [i \in 1..n |-> Generated(i)] \o (IF ok THEN <<>> ELSE <<InternalError>>))
         /\ obs' = Set(obs, s, [obs[s] EXCEPT !.llm = @ + 1, !.stepAtEnd = step,
                       !.branch = IF @ = "none" THEN "llm" ELSE @])
         /\ pc' = Set(pc, s, "done")
    /\ UNCHANGED <<variant, webhookUrl, overlaps, hasStep, step, now, ticks, calendar,
                   nextId, turns, msg, loc, ret, promptedBy>>

\* time passes: a short while during a turn (a call takes time), a long
\* while between two turns
Tick ==
    /\ ticks < MaxTicks
    /\ ticks' = ticks + 1
    /\ now' = now + (IF Quiet THEN LongWait ELSE ShortWait)
    /\ UNCHANGED <<variant, webhookUrl, overlaps, hasStep, step, calendar, nextId, turns,
                   pc, msg, loc, ret, yielded, obs, promptedBy>>

\* a step of the turn of session s
TurnStep(s) ==
    \/ TestIdle(s)
    \/ SetAwaiting(s)
    \/ TestAwaiting(s)
    \/ Details(s)
    \/ CheckDuplicate(s)
    \/ DefineSpecialist(s)
    \/ InsertEvent(s)
    \/ SendWebhook(s)
    \/ Generate(s)

\* turns of different sessions may overlap
Next ==
    \/ \E s \in Sessions, m \in Messages : Receive(s, m)
    \/ \E s \in Sessions : TurnStep(s)
    \/ Tick

Spec == Init /\ [][Next]_vars

\* turns run one after the other
ReceiveSeq(s, m) == Quiet /\ Receive(s, m)

NextSeq ==
    \/ \E s \in Sessions, m \in Messages : ReceiveSeq(s, m)
    \/ \E s \in Sessions : TurnStep(s)
    \/ Tick

SpecSeq == Init /\ [][NextSeq]_vars

(************************ what the claims speak of **************************)
\* the turn of session s has ended
Ended(s) == pc[s] = "done"

\* the turn of session s created an event
Created(s) == obs[s].event # NoEvent

\* the turn of session s asked the calendar for duplicates (a list request
\* was sent, whatever came back)
Asked(s) == obs[s].lists > 0

\* the turn of session s touched none of the external services
NoSideEffect(s) ==
    /\ obs[s].lists = 0
    /\ obs[s].routes = 0
    /\ obs[s].inserts = 0
    /\ obs[s].posts = <<>>
    /\ obs[s].llm = 0

\* what the caller of generate_response gets for the turn of session s:
\* generate_response has yield statements (app-webhook.py:152, 156), so a call
\* gives a generator; iterating it gives the yielded values, and the value of a
\* return statement travels in StopIteration, not in the sequence
Delivered(s) == yielded[s]

\* the names the two parsers can read from the messages
Names ==
    {WebhookParse(m).name : m \in Messages} \cup {CalendarParse(m).name : m \in Messages}

\* the events e1 and e2 are bookings of one name
SameName(e1, e2) ==
    \E n \in Names :
        /\ Contains(Summary(n, <<>>), e1.summary)
        /\ Contains(Summary(n, <<>>), e2.summary)

\* the slots of e1 and e2 overlap
Overlap(e1, e2) == e1.start < e2.end /\ e2.start < e1.end

(******************************** C1 ****************************************)
\* C1: session isolation.  A turn is handled as the details turn of a booking
\* only when the prompt it answers was given to the same session; a trigger
\* message of B that follows the trigger message of A is B's own first turn.
C1_SessionIsolation ==
    \A s \in Sessions : obs[s].branch = "details" => obs[s].promptedBy = s

(******************************** C2 ****************************************)
\* C2: in the webhook application the window the duplicate check asks about
\* is the slot of the event the same transaction creates: timeMin is the
\* event's start and timeMax its end.
C2_CheckWindowIsSlot ==
    \A s \in Sessions :
        (variant = "webhook" /\ Asked(s) /\ Created(s)) =>
            /\ obs[s].timeMin = obs[s].event.start
            /\ obs[s].timeMax = obs[s].event.end

(******************************** C3 ****************************************)
\* C3: when turns do not overlap and the calendar works, the calendar never
\* holds two events of one name whose 30-minute slots overlap.
C3_OneEventPerNameAndSlot ==
    \A e1, e2 \in calendar :
        (e1 # e2 /\ SameName(e1, e2)) => ~Overlap(e1, e2)

(******************************** C4 ****************************************)
\* C4: a turn that starts with step = 1 (AwaitingDetails) is a details turn,
\* whatever its message: it makes no LLM call and does not leave step at 1.
C4_DetailsTurnBooks ==
    \A s \in Sessions :
        (Ended(s) /\ obs[s].stepAtStart = 1) =>
            /\ obs[s].branch = "details"
            /\ obs[s].llm = 0
            /\ obs[s].stepAtEnd = 0

(******************************** C5 ****************************************)
\* C5: a turn that starts with step = 0 (Idle) on a booking trigger, such as
\* the applications' own opening examples, returns the prompt, leaves step
\* at 1 and touches no external service.
C5_TriggerAtIdlePrompts ==
    \A s \in Sessions :
        (Ended(s) /\ obs[s].stepAtStart = 0 /\ msg[s] \in ExampleTriggers) =>
            /\ ret[s] = Prompt
            /\ obs[s].stepAtEnd = 1
            /\ NoSideEffect(s)

(******************************** C6 ****************************************)
\* C6: in the webhook application, when the event was created and every
\* POST attempt failed, the turn still returns the pending-confirmation text.
C6_DispatchFailureKeepsPending ==
    \A s \in Sessions :
        (Ended(s) /\ Created(s) /\ obs[s].dispatch = "exhausted") =>
            ret[s] = PendingReply(loc[s].specialist, loc[s].appointment_time)

(******************************** C7 ****************************************)
\* C7: with a configured endpoint, a call of send_webhook_confirmation whose
\* attempts all fail makes exactly 3 POST attempts and then raises; the event
\* created before it is still in the calendar, unchanged, when the turn ends.
C7_ThreeAttemptsEventIntact ==
    \A s \in Sessions :
        (Ended(s) /\ Created(s) /\ obs[s].posts # <<>>
                  /\ \A i \in 1..Len(obs[s].posts) : obs[s].posts[i] = "fail") =>
            /\ Len(obs[s].posts) = 3
            /\ obs[s].dispatch = "exhausted"
            /\ obs[s].event \in calendar
            /\ obs[s].event =
                 Stored(WebhookEvent(loc[s].name, loc[s].specialist, loc[s].symptoms,
                                     loc[s].appointment_time), obs[s].event.id)

\* a turn whose three POST attempts all failed has ended
C7_Witness ==
    \E s \in Sessions :
        /\ Ended(s) /\ Created(s)
        /\ obs[s].posts = <<"fail", "fail", "fail">>
        /\ obs[s].event \in calendar

(******************************** C8 ****************************************)
\* C8: whenever the calendar query of check_duplicate_event fails, with any
\* kind of error, the check answers false and the transaction goes on to
\* the specialist router.
C8_FailOpenOnAnyError ==
    \A s \in Sessions :
        (Ended(s) /\ obs[s].listResult \in ServiceResults \ {"ok"}) =>
            obs[s].routes > 0

(******************************** C9 ****************************************)
\* C9: when a details turn ends, step is 0 (Idle), whatever the outcome of
\* the booking attempt, in both applications.
C9_IdleAfterAttempt ==
    \A s \in Sessions :
        (Ended(s) /\ obs[s].branch = "details") => obs[s].stepAtEnd = 0

(******************************** C10 ***************************************)
\* C10: every created event lasts exactly 30 minutes and starts exactly
\* 3 hours after the turn's request time, also when the calls before it took
\* time; the date in the reply is that start.
C10_SlotFromRequestTime ==
    \A s \in Sessions :
        Created(s) =>
            /\ obs[s].event.end - obs[s].event.start = MINUTES_30
            /\ obs[s].event.start = obs[s].requestedAt + HOURS_3
            /\ (Ended(s) /\ ret[s].date # -1) =>
                    ret[s].date = FormatDate(obs[s].event.start)

(******************************** C11 ***************************************)
\* the texts a booking turn can end with: the literals of schedule_appointment
\* and generate_response, with nothing of an exception in them
FixedTexts ==
    {DUPLICATE.text, CONNECT_ERROR.text, APOLOGY.text, CALENDAR_ERROR.text,
     PendingReply(<<>>, 0).text, BookedReply(<<>>, 0).text}

\* the collaborators whose errors a booking turn can meet
Collaborators == {"list", "credentials", "router", "insert", "webhook"}

\* every error is caught inside schedule_appointment: a turn in which a
\* collaborator raised ends, and the value generate_response returns for it
\* is one of the fixed texts, never None; only an HTTP error of the list
\* request lets the transaction go on
ErrorsAreCaught ==
    \A s \in Sessions :
        /\ obs[s].raised \subseteq Collaborators
        /\ (Ended(s) /\ obs[s].raised # {}) =>
              /\ obs[s].branch = "details"
              /\ ret[s] # PyNone
              /\ ret[s].text \in FixedTexts
        /\ (~Ended(s) /\ obs[s].raised # {}) =>
              (pc[s] \in {"router", "insert", "dispatch"} /\ obs[s].raised = {"list"})

\* C11: when an external collaborator (calendar list, calendar insert,
\* credentials, specialist router, webhook) raised during a booking turn, the
\* error is caught and the turn's response is one of the fixed texts: the
\* response is not empty, not None and not made from the exception.
C11_ErrorsBecomeFixedStrings ==
    /\ ErrorsAreCaught
    /\ \A s \in Sessions :
          (Ended(s) /\ obs[s].raised # {}) => Delivered(s) = <<ret[s]>>

(******************************** C12 ***************************************)
\* C12: when the calendar list of check_duplicate_event finds an event (the
\* check returns true), the transaction ends at once with the duplicate text:
\* no router call, no insert, no POST, no event; and the step that made the
\* check leaves the calendar as it was.
C12_DuplicateAbortsWithoutWrite ==
    /\ [](\A s \in Sessions :
            (obs[s].duplicate = "True" \/ obs[s].items > 0) =>
                /\ Ended(s)
                /\ obs[s].duplicate = "True"
                /\ ret[s] = DUPLICATE
                /\ obs[s].routes = 0
                /\ obs[s].inserts = 0
                /\ obs[s].posts = <<>>
                /\ ~Created(s))
    /\ [][\A s \in Sessions :
            (obs[s].items = 0 /\ obs'[s].items > 0) =>
                (calendar' = calendar /\ nextId' = nextId)]_vars

\* a transaction has ended as a duplicate of an event the calendar holds
C12_Witness ==
    \E s \in Sessions :
        /\ Ended(s)
        /\ obs[s].duplicate = "True"
        /\ ret[s] = DUPLICATE
        /\ \E e \in calendar : Contains(DuplicateQuery(loc[s].name), e.summary)

(******************************** C13 ***************************************)
\* a failure of the router aborts the transaction: the router was called once,
\* there was no insert and no POST, no event exists, the turn has ended with
\* the application's error text as its return value, and the failing step
\* leaves the calendar as it was
RouterFailureAborts ==
    /\ [](\A s \in Sessions :
            "router" \in obs[s].raised =>
                /\ Ended(s)
                /\ obs[s].routes = 1
                /\ obs[s].inserts = 0
                /\ obs[s].posts = <<>>
                /\ obs[s].dispatch = "none"
                /\ ~Created(s)
                /\ ret[s] = (IF variant = "webhook" THEN APOLOGY ELSE CALENDAR_ERROR))
    /\ [][\A s \in Sessions :
            ("router" \notin obs[s].raised /\ "router" \in obs'[s].raised) =>
                (calendar' = calendar /\ nextId' = nextId)]_vars

\* C13: when define_specialist raises, in either application, the booking
\* attempt fails with no partial write (no insert, no POST), the router is
\* called exactly once, and the user gets the fixed error text as the
\* response of the turn.
C13_RouterFailureIsFatal ==
    /\ RouterFailureAborts
    /\ [](\A s \in Sessions :
            "router" \in obs[s].raised => Delivered(s) = <<ret[s]>>)

(******************************** C14 ***************************************)
\* C14: in the webhook application without WEBHOOK_URL, a transaction that
\* created its event makes no POST attempt at all (the dispatch is skipped,
\* nothing is raised or retried) and ends with the pending-confirmation text
\* for its specialist and slot.
C14_UnconfiguredDispatchIsNoOp ==
    \A s \in Sessions :
        (variant = "webhook" /\ ~webhookUrl /\ Ended(s) /\ Created(s)) =>
            /\ obs[s].posts = <<>>
            /\ obs[s].dispatch = "skipped"
            /\ "webhook" \notin obs[s].raised
            /\ obs[s].event \in calendar
            /\ ret[s] = PendingReply(loc[s].specialist, loc[s].appointment_time)

\* a transaction has created its event and ended with the dispatch skipped
C14_Witness ==
    \E s \in Sessions :
        /\ variant = "webhook" /\ ~webhookUrl
        /\ Ended(s) /\ Created(s)
        /\ obs[s].dispatch = "skipped"
        /\ ret[s].text = PendingReply(<<>>, 0).text

(******************************** C15 ***************************************)
\* C15: check-then-create race.  Nothing stands between the check and the
\* insert of a transaction: the answer of the check is never looked at again,
\* and an insert the service accepts adds the event whatever the calendar
\* holds by then.  So every event a running or just ended turn created is in
\* the calendar, and in the webhook application it was created on a check
\* that answered false at a moment not later than the insert.
C15_InsertIsUnconditional ==
    \A s \in Sessions :
        Created(s) =>
            /\ obs[s].event \in calendar
            /\ obs[s].inserts = 1
            /\ variant = "webhook" =>
                  /\ obs[s].duplicate = "False"
                  /\ obs[s].seen <= obs[s].event.id

\* the race has happened: two overlapping transactions of one name both asked
\* the calendar before either event existed, both got no duplicate, and the
\* calendar holds both events in overlapping slots
C15_Witness ==
    \E s, t \in Sessions :
        /\ s # t
        /\ Created(s) /\ Created(t)
        /\ obs[s].listResult = "ok" /\ obs[t].listResult = "ok"
        /\ obs[s].duplicate = "False" /\ obs[t].duplicate = "False"
        /\ obs[s].seen <= obs[t].event.id /\ obs[s].seen <= obs[s].event.id
        /\ obs[t].seen <= obs[s].event.id /\ obs[t].seen <= obs[t].event.id
        /\ obs[s].event \in calendar /\ obs[t].event \in calendar
        /\ obs[s].event # obs[t].event
        /\ SameName(obs[s].event, obs[t].event)
        /\ Overlap(obs[s].event, obs[t].event)

(******************************** C16 ***************************************)
\* C16: every booking-path turn (the prompt, the format error, the result of
\* schedule_appointment) delivers its result text to the caller: the responses
\* of the turn are not empty and the last of them is that text.
C16_BookingReplyDelivered ==
    \A s \in Sessions :
        (Ended(s) /\ obs[s].branch \in {"prompt", "details"}) =>
            /\ Delivered(s) # <<>>
            /\ Delivered(s)[Len(Delivered(s))] = ret[s]

(******************************** C17 ***************************************)
\* the step of session s that changes step from 0 to 1: the turn of a trigger
\* message that tested step = 0 returns the prompt
IdleToAwaiting(s) ==
    /\ step = 0 /\ step' = 1
    /\ pc[s] = "set_awaiting" /\ pc'[s] = "done"
    /\ IsTrigger(msg[s])
    /\ obs[s].branch = "none" /\ obs'[s].branch = "prompt"

\* the step of session s that changes step from 1 to 0: a details turn, at
\* its start (webhook application) or at its end (calendar application)
AwaitingToIdle(s) ==
    /\ step = 1 /\ step' = 0
    /\ obs'[s].branch = "details"
    /\ IF variant = "webhook"
       THEN pc[s] = "details"
       ELSE pc[s] \in {"router", "insert"} /\ pc'[s] = "done"

\* C17: step changes only from 0 to 1 by the turn of a trigger message that
\* found step = 0, and from 1 to 0 by a details turn; a turn changes step at
\* most once; a turn on the LLM path never changes it, and the step that
\* ends the LLM call, well or with an exception, leaves it as it is.
C17_StepTransitions ==
    /\ [](\A s \in Sessions :
            /\ obs[s].stepChanges <= 1
            /\ obs[s].branch = "llm" => obs[s].stepChanges = 0)
    /\ [][(step' # step =>
               \E s \in Sessions :
                  /\ IdleToAwaiting(s) \/ AwaitingToIdle(s)
                  /\ obs[s].stepChanges = 0 /\ obs'[s].stepChanges = 1)
           /\ (\A t \in Sessions :
                  (pc[t] = "llm" /\ pc'[t] # "llm") => step' = step)]_vars

\* both transitions have happened and a turn on the LLM path has ended while
\* step was 1, leaving it 1
C17_Witness ==
    \E s \in Sessions :
        /\ Ended(s)
        /\ obs[s].branch = "llm"
        /\ obs[s].stepAtStart = 1
        /\ step = 1
        /\ calendar # {}

(******************************** C18 ***************************************)
\* the message has no comma
NoComma(message) == \A i \in 1..Len(message) : message[i] # ","

\* C18: in the webhook application a details turn whose message has no comma
\* returns the format-error text, asks nothing of the calendar, the router or
\* the webhook, creates no event, and has set step to 0 (it is not kept at 1):
\* the next booking starts with a trigger message again.
C18_ParseFailureResets ==
    \A s \in Sessions :
        (variant = "webhook" /\ Ended(s) /\ obs[s].branch = "details"
                             /\ NoComma(msg[s])) =>
            /\ ret[s] = FORMAT_ERROR
            /\ NoSideEffect(s)
            /\ ~Created(s)
            /\ obs[s].stepChanges <= 1
            /\ obs[s].stepAtEnd = 0

\* a details turn without a comma has ended with the format error
C18_Witness ==
    \E s \in Sessions :
        /\ variant = "webhook"
        /\ Ended(s)
        /\ obs[s].branch = "details"
        /\ NoComma(msg[s])
        /\ ret[s] = FORMAT_ERROR

(******************************** C19 ***************************************)
\* the transaction of session s ended as a duplicate or failed before or
\* during its insert
EndedBeforeEvent(s) ==
    \/ obs[s].duplicate \in {"True", "raise"}
    \/ obs[s].raised \cap {"router", "insert"} # {}
    \/ Ended(s) /\ "credentials" \in obs[s].raised

\* C19: order of a booking transaction.  A POST is made only when the insert
\* of the same transaction has returned an event, and it carries that event's
\* id; an insert is asked only when the router has returned a specialist; in
\* the webhook application the router is called only when the duplicate check
\* has answered false.  A transaction that ends as a duplicate or fails before
\* or during the insert makes no POST, and the calendar application makes no
\* POST and no duplicate check at all.
C19_TransactionOrder ==
    /\ [](\A s \in Sessions :
            /\ obs[s].posts # <<>> =>
                  (Created(s) /\ obs[s].postedId = obs[s].event.id
                              /\ obs[s].event \in calendar)
            /\ EndedBeforeEvent(s) =>
                  (obs[s].posts = <<>> /\ obs[s].dispatch = "none" /\ ~Created(s))
            /\ variant = "calendar" =>
                  (obs[s].posts = <<>> /\ obs[s].dispatch = "none"
                     /\ obs[s].lists = 0 /\ obs[s].duplicate = "none"))
    /\ [][\A s \in Sessions :
            /\ (\/ Len(obs'[s].posts) > Len(obs[s].posts)
                \/ obs'[s].dispatch \notin {obs[s].dispatch, "none"}) =>
                  (pc[s] = "dispatch" /\ Created(s) /\ obs[s].inserts = 1)
            /\ obs'[s].inserts > obs[s].inserts =>
                  (obs[s].routes = 1 /\ loc[s].specialist # <<>>
                     /\ "router" \notin obs[s].raised /\ obs[s].posts = <<>>)
            /\ obs'[s].routes > obs[s].routes =>
                  /\ obs[s].inserts = 0
                  /\ variant = "webhook" => obs[s].duplicate = "False"]_vars

\* a webhook transaction has gone through all four calls: the check answered
\* false, the router and the insert returned, and the POST carried the id
C19_Witness ==
    \E s \in Sessions :
        /\ variant = "webhook"
        /\ Ended(s) /\ Created(s)
        /\ obs[s].duplicate = "False"
        /\ obs[s].routes = 1 /\ obs[s].inserts = 1
        /\ obs[s].dispatch = "delivered"
        /\ obs[s].postedId = obs[s].event.id

(******************************** C20 ***************************************)
\* C20: with WEBHOOK_URL set, the call of send_webhook_confirmation of a
\* transaction makes at least 1 and at most 3 POST attempts, and only the last
\* of them can succeed (no POST follows a success), so an event gets at most
\* one successful notification; the posts of two transactions carry different
\* event ids; and a transaction makes at most one insert.
C20_AtMostOneSuccessfulPost ==
    \A s \in Sessions :
        /\ obs[s].inserts <= 1
        /\ (webhookUrl /\ obs[s].dispatch # "none") =>
              /\ Len(obs[s].posts) \in 1..MAX_RETRIES
              /\ \A i \in 1..(Len(obs[s].posts) - 1) : obs[s].posts[i] = "fail"
              /\ Cardinality({i \in 1..Len(obs[s].posts) : obs[s].posts[i] = "ok"}) <= 1
              /\ obs[s].dispatch = "delivered" <=> obs[s].posts[Len(obs[s].posts)] = "ok"
              /\ obs[s].dispatch = "exhausted" <=> Len(obs[s].posts) = MAX_RETRIES
                                                   /\ obs[s].posts[MAX_RETRIES] = "fail"
        /\ \A t \in Sessions \ {s} :
              (obs[s].posts # <<>> /\ obs[t].posts # <<>>) =>
                  obs[s].postedId # obs[t].postedId

\* a call has stopped at its first success, after one failed attempt
C20_Witness ==
    \E s \in Sessions :
        /\ webhookUrl
        /\ Ended(s) /\ Created(s)
        /\ obs[s].posts = <<"fail", "ok">>
        /\ obs[s].dispatch = "delivered"

====
